---- MODULE Spec2Model ----
(***************************************************************************)
(* A model of go-xml-validator (main.go and its coloured twin): the        *)
(* validation pipeline validateXML, the well-formedness loop               *)
(* validateBasicXML, the four line-oriented checkers, findErrorPosition    *)
(* and the report main prints.                                             *)
(*                                                                         *)
(* A document is a sequence of bytes (integers 0..255), as in the Go code. *)
(* Lines, columns and regular-expression matches are computed on those     *)
(* bytes.  encoding/xml's tokenizer is a library outside the repository:   *)
(* each call of Token() is an environment step with one of the outcomes    *)
(* its interface allows.                                                   *)
(***************************************************************************)
EXTENDS Integers, Sequences, FiniteSets, TLC

VARIABLES
    content,      \* []byte handed to validateXML or to one checker
    opts,         \* ValidationOptions: [MaxErrors |-> Int]
    pc,           \* position of the run
    fn,           \* the function the run applies ("main" or one checker)
    tokens,       \* tokens validateBasicXML has read so far
    err,          \* the err of its last call of decoder.Token()
    basicErrors,  \* what validateBasicXML returned
    errors,       \* the []ValidationError a function returned
    phases,       \* the checkers validateXML has started, in order
    out,          \* what main printed and its exit status
    byteOffset,   \* the offset handed to findErrorPosition (-1: none yet)
    position      \* what findErrorPosition returned

vars == <<content, opts, pc, fn, tokens, err, basicErrors, errors, phases, out, byteOffset, position>>

----------------------------------------------------------------------------
(* Bounds of the model. *)

\* longest run of pieces a document of the pipeline is made of
MaxDocPieces == 3
\* largest --max-errors value tried (the smallest is -1)
MaxBudget == 2
\* most tokens the tokenizer hands out before it ends or fails
MaxTokens == 1

----------------------------------------------------------------------------
(* Bytes and strings. *)

Min(S) == CHOOSE x \in S : \A y \in S : x <= y
Max(S) == CHOOSE x \in S : \A y \in S : x >= y

RECURSIVE Cat(_)
\* the concatenation of a sequence of byte strings
Cat(ss) == IF ss = <<>> THEN <<>> ELSE Head(ss) \o Cat(Tail(ss))

\* s[i:j] of Go (0-based, j exclusive)
Slice(s, i, j) == SubSeq(s, i + 1, j)

\* strings.HasPrefix(s[i:], p), i 0-based
HasAt(s, i, p) ==
    /\ i >= 0
    /\ i + Len(p) <= Len(s)
    /\ \A k \in 1..Len(p) : s[i + k] = p[k]

\* 0-based index of the first occurrence of p in s at or after i, or -1
IndexFrom(s, i, p) ==
    IF \A k \in i..(Len(s) - Len(p)) : ~HasAt(s, k, p) THEN -1
    ELSE Min({k \in i..(Len(s) - Len(p)) : HasAt(s, k, p)})

IsDigit(b) == b \in 48..57
IsHexDigit(b) == IsDigit(b) \/ b \in 65..70 \/ b \in 97..102
IsAlnum(b) == IsDigit(b) \/ b \in 65..90 \/ b \in 97..122

\* "\n"
NL == <<10>>

RECURSIVE Split(_)
RECURSIVE SplitAt(_, _)
\* bytes.Split(content, []byte("\n")): never empty, "" gives one empty line
Split(c) == IF IndexFrom(c, 0, NL) = -1 THEN <<c>> ELSE SplitAt(c, IndexFrom(c, 0, NL))

\* the line that ends before the "\n" at index k, then the lines after it
SplitAt(c, k) == <<Slice(c, 0, k)>> \o Split(Slice(c, k + 1, Len(c)))

\* Width in bytes of the rune Go decodes at 0-based index i of s (range over
\* a string, and the regexp engine): an ASCII byte is one rune, a two-byte
\* UTF-8 sequence is one rune, any other byte is U+FFFD of width 1.  The
\* documents of the model hold no lead byte of a three- or four-byte form.
RuneWidth(s, i) ==
    IF s[i + 1] \in 194..223 /\ i + 2 <= Len(s) /\ s[i + 2] \in 128..191
    THEN 2 ELSE 1

\* the code point of that rune
RuneAt(s, i) ==
    IF s[i + 1] < 128 THEN s[i + 1]
    ELSE IF RuneWidth(s, i) = 2
         THEN (s[i + 1] - 192) * 64 + (s[i + 2] - 128)
         ELSE 65533

\* ValidationError
VE(line, col, text, type, msg, hl) ==
    [LineNumber |-> line, Column |-> col, Line |-> text,
     ErrorType |-> type, Message |-> msg, Content |-> hl]

\* a message: its format string and the values formatted into it
Msg(text, args) == [text |-> text, args |-> args]

\* what a checker hands back: a list, or a panic that unwinds its caller
Returned(es) == [panic |-> FALSE, errors |-> es]
Panicked == [panic |-> TRUE, errors |-> <<>>]

\* a budget test that never stops the loop
BudgetReached_Never(o, es) == FALSE

\* opts.MaxErrors > 0 && len(errors) >= opts.MaxErrors
BudgetReached(o, es) == o.MaxErrors > 0 /\ Len(es) >= o.MaxErrors

----------------------------------------------------------------------------
(* findErrorPosition *)

RECURSIVE CountPos(_, _, _, _)
\* the loop "for i := 0; i < offset; i++" from i with line and col so far
CountPos(c, offset, i, lc) ==
    IF i >= offset THEN lc
    ELSE IF c[i + 1] = 10
         THEN CountPos(c, offset, i + 1, [line |-> lc.line + 1, col |-> 1])
         ELSE CountPos(c, offset, i + 1, [line |-> lc.line, col |-> lc.col + 1])

\* a scanner that keeps the "\r"
DropCR_Keep(s) == s

\* bufio's dropCR: one trailing "\r" is removed
DropCR(s) == IF Len(s) > 0 /\ s[Len(s)] = 13 THEN Slice(s, 0, Len(s) - 1) ELSE s

RECURSIVE ScanLines(_)
RECURSIVE ScanAt(_, _)
\* the tokens of bufio.Scanner with its default split function ScanLines:
\* each line without its "\n" and without one "\r" before it; a last line
\* that is not empty is a token too, an empty one is not
ScanLines(c) ==
    IF c = <<>> THEN <<>>
    ELSE IF IndexFrom(c, 0, NL) = -1 THEN <<DropCR(c)>>
    ELSE ScanAt(c, IndexFrom(c, 0, NL))

\* the token that ends before the "\n" at index k, then the tokens after it
ScanAt(c, k) == <<DropCR(Slice(c, 0, k))>> \o ScanLines(Slice(c, k + 1, Len(c)))

\* the scanner loop: the text of line number line, "" when the scanner ends
\* before it
LineContent(scanned, line) ==
    IF line <= Len(scanned) THEN scanned[line] ELSE <<>>

\* the return of findErrorPosition for the line and column counted
Position(c, lc) ==
    [line |-> lc.line, col |-> lc.col,
     lineContent |-> LineContent(ScanLines(c), lc.line)]

\* findErrorPosition with "offset > len(content)" as its test
findErrorPosition_OffByOne(c, offset) ==
    IF offset < 0 \/ offset > Len(c)
    THEN [line |-> 1, col |-> 1, lineContent |-> <<>>]
    ELSE Position(c, CountPos(c, offset, 0, [line |-> 1, col |-> 1]))

findErrorPosition(c, offset) ==
    IF offset < 0 \/ offset >= Len(c)
    THEN [line |-> 1, col |-> 1, lineContent |-> <<>>]
    ELSE Position(c, CountPos(c, offset, 0, [line |-> 1, col |-> 1]))

----------------------------------------------------------------------------
(* validateControlCharacters *)

RECURSIVE FirstControl(_, _)
\* "for j, r := range lineStr": the 0-based byte index of the first rune
\* below 32 that is not tab, CR or LF, at or after j; -1 when there is none
FirstControl(s, j) ==
    IF j >= Len(s) THEN -1
    ELSE IF RuneAt(s, j) < 32 /\ RuneAt(s, j) \notin {9, 13, 10} THEN j
    ELSE FirstControl(s, j + RuneWidth(s, j))

\* the issue for the control character r at byte index j of line i (0-based)
ControlIssue(s, i, j, r) ==
    VE(i + 1, j + 1, s, "Control character",
       Msg("Control character (hex 0x%02X) found", <<<<r>>>>), <<r>>)

\* the issues of one line whose first control character is at j (-1: none)
ControlAt(s, i, j) ==
    IF j = -1 THEN <<>> ELSE <<ControlIssue(s, i, j, s[j + 1])>>

RECURSIVE ControlLine_NoBreak(_, _)
\* the loop over the runes of a line without its "break": every control
\* character of the line gets an issue (here from the last to the first)
ControlLine_NoBreak(s, i) ==
    IF s = <<>> THEN <<>>
    ELSE (IF s[Len(s)] < 32 /\ s[Len(s)] \notin {9, 13, 10}
          THEN <<ControlIssue(s, i, Len(s) - 1, s[Len(s)])>> ELSE <<>>)
         \o ControlLine_NoBreak(SubSeq(s, 1, Len(s) - 1), i)

\* the issues of one line (i is the 0-based index of the line)
ControlLine(s, i) == ControlAt(s, i, FirstControl(s, 0))

RECURSIVE ControlLoop(_, _, _, _)
RECURSIVE ControlLineEnd(_, _, _, _)
\* "for i, line := range lines" from line i (0-based) with the errors so far
ControlLoop(lines, o, i, es) ==
    IF i >= Len(lines) THEN es
    ELSE ControlLineEnd(lines, o, i, es \o ControlLine(lines[i + 1], i))

\* the end of the loop body: "Stop if we've reached max errors"
ControlLineEnd(lines, o, i, es) ==
    IF BudgetReached(o, es) THEN es ELSE ControlLoop(lines, o, i + 1, es)

validateControlCharacters(c, o) == Returned(ControlLoop(Split(c), o, 0, <<>>))

----------------------------------------------------------------------------
(* validateHexColors *)

RECURSIVE HexRun(_, _)
\* how many hex digits follow one another from 0-based index p of s
HexRun(s, p) ==
    IF p < Len(s) /\ IsHexDigit(s[p + 1]) THEN 1 + HexRun(s, p + 1) ELSE 0

\* "([^0-9a-fA-F]|$)" at index p: the end of the group's match, or -1.  The
\* class is tried first and takes one rune; "$" matches at the end of the line.
HexDelimEnd(s, p) ==
    IF p < Len(s) /\ ~IsHexDigit(RuneAt(s, p)) THEN p + RuneWidth(s, p)
    ELSE IF p = Len(s) THEN p
    ELSE -1

\* "#[0-9a-fA-F]{lo,hi}([^0-9a-fA-F]|$)" at index i: the number of digits the
\* greedy repetition ends with (the largest that lets the group match), or 0
HexCounted(s, i, lo, hi) ==
    Max({0} \cup {k \in lo..hi : HexRun(s, i + 1) >= k /\ HexDelimEnd(s, i + 1 + k) # -1})

NoMatch == [found |-> FALSE]

\* reInvalidHex at index i: the submatch indexes Go reports, match[0],
\* match[1] and the starts of the two groups match[2] and match[4] (-1 for
\* a group that took no part).  The alternatives are tried in order: k1 and
\* k2 are the digits the first and the second take (0: no match), run the
\* digits the third would take.
HexAlternatives(s, i, k1, k2, run) ==
    IF k1 > 0
    THEN [found |-> TRUE, m0 |-> i, m1 |-> HexDelimEnd(s, i + 1 + k1),
          m2 |-> i + 1 + k1, m4 |-> -1]
    ELSE IF k2 > 0
    THEN [found |-> TRUE, m0 |-> i, m1 |-> HexDelimEnd(s, i + 1 + k2),
          m2 |-> -1, m4 |-> i + 1 + k2]
    ELSE IF run >= 7
    THEN [found |-> TRUE, m0 |-> i, m1 |-> i + 1 + run, m2 |-> -1, m4 |-> -1]
    ELSE NoMatch

reInvalidHexAt(s, i) ==
    IF ~(i < Len(s) /\ s[i + 1] = 35) THEN NoMatch
    ELSE HexAlternatives(s, i, HexCounted(s, i, 1, 2), HexCounted(s, i, 4, 5),
                         HexRun(s, i + 1))

RECURSIVE HexFindAll(_, _)
RECURSIVE HexNext(_, _)
RECURSIVE HexFirst(_, _)
\* reInvalidHex.FindAllStringSubmatchIndex(lineStr, -1) from index pos: the
\* leftmost match, then the matches after its end
HexFindAll(s, pos) == HexFirst(s, {i \in pos..(Len(s) - 1) : reInvalidHexAt(s, i).found})

\* the leftmost of the indexes at which a match starts, if there is one
HexFirst(s, starts) ==
    IF starts = {} THEN <<>> ELSE HexNext(s, reInvalidHexAt(s, Min(starts)))

HexNext(s, m) == <<m>> \o HexFindAll(s, m.m1)

\* the issue of one match on line i (0-based)
HexError(s, i, hexStart, hexCode) ==
    VE(i + 1, hexStart + 1, s, "Invalid hex color",
       Msg("Invalid hex color code: %s (should be #RGB, #RRGGBB, or #RRGGBBAA)",
           <<hexCode>>),
       hexCode)

\* hexEnd is match[1], or match[2] when the first group took part
HexIssue(s, i, m) ==
    HexError(s, i, m.m0, Slice(s, m.m0, IF m.m2 # -1 THEN m.m2 ELSE m.m1))

\* the issues of the matches ms of line i
HexIssues(s, i, ms) == [k \in 1..Len(ms) |-> HexIssue(s, i, ms[k])]

\* the issues of one line
HexLine(s, i) == HexIssues(s, i, HexFindAll(s, 0))

RECURSIVE HexLoop(_, _, _, _)
RECURSIVE HexLineEnd(_, _, _, _)
\* "for i, line := range lines" from line i (0-based) with the errors so far
HexLoop(lines, o, i, es) ==
    IF i >= Len(lines) THEN es
    ELSE HexLineEnd(lines, o, i, es \o HexLine(lines[i + 1], i))

\* the end of the loop body: "Stop if we've reached max errors"
HexLineEnd(lines, o, i, es) ==
    IF BudgetReached(o, es) THEN es ELSE HexLoop(lines, o, i + 1, es)

validateHexColors(c, o) == Returned(HexLoop(Split(c), o, 0, <<>>))

----------------------------------------------------------------------------
(* validateSVG *)

\* "<" and ">"
LtB == <<60>>
GtB == <<62>>

\* path|rect|circle|ellipse|line|polyline|polygon|image|use, in that order
SVGTagNames ==
    << <<112, 97, 116, 104>>, <<114, 101, 99, 116>>,
       <<99, 105, 114, 99, 108, 101>>, <<101, 108, 108, 105, 112, 115, 101>>,
       <<108, 105, 110, 101>>, <<112, 111, 108, 121, 108, 105, 110, 101>>,
       <<112, 111, 108, 121, 103, 111, 110>>, <<105, 109, 97, 103, 101>>,
       <<117, 115, 101>> >>

\* width|height|viewBox, in that order
SVGAttrNames ==
    << <<119, 105, 100, 116, 104>>, <<104, 101, 105, 103, 104, 116>>,
       <<118, 105, 101, 119, 66, 111, 120>> >>

\* "<svg"
SvgOpen == <<60, 115, 118, 103>>

\* the first name of names that s holds at index p (0 when none does): the
\* order in which the alternation tries them
NameAt(s, p, names) ==
    IF \A n \in 1..Len(names) : ~HasAt(s, p, names[n]) THEN 0
    ELSE Min({n \in 1..Len(names) : HasAt(s, p, names[n])})

RECURSIVE RuneStarts(_, _, _)
\* the indexes from j up to end at which a rune starts, stepping rune by rune
RuneStarts(s, j, end) ==
    IF j > end THEN {}
    ELSE IF j >= Len(s) THEN {j}
    ELSE {j} \cup RuneStarts(s, j + RuneWidth(s, j), end)

RECURSIVE ClassRun(_, _, _)
\* the end of the longest run from index p of runes outside the set stop
ClassRun(s, p, stop) ==
    IF p < Len(s) /\ RuneAt(s, p) \notin stop
    THEN ClassRun(s, p + RuneWidth(s, p), stop) ELSE p

\* reSVGSelfClosing at index i: "<", a tag name, "[^>]*" as long as it can be
\* while "[^/]" takes one rune that is not "/" and ">" follows.  m0, m1 are
\* match[0], match[1]; m2, m3 are the tag name's match[2], match[3].
\* the indexes q from p on at which "[^/]>" matches after "[^>]*" took s[p:q]
SelfClosingEnds(s, p) ==
    {q \in RuneStarts(s, p, ClassRun(s, p, {62})) :
        /\ q < Len(s)
        /\ RuneAt(s, q) # 47
        /\ HasAt(s, q + RuneWidth(s, q), GtB)}

\* the match that starts at i, whose tag name ends before p and whose "[^/]"
\* is the rune at q
SelfClosingMatch(s, i, p, q) ==
    [found |-> TRUE, m0 |-> i, m1 |-> q + RuneWidth(s, q) + 1, m2 |-> i + 1, m3 |-> p]

\* greedy "[^>]*": the last of the ends
SelfClosingLast(s, i, p, ends) ==
    IF ends = {} THEN NoMatch ELSE SelfClosingMatch(s, i, p, Max(ends))

\* the tag name is SVGTagNames[n] (n = 0: none of them)
SelfClosingNamed(s, i, n) ==
    IF n = 0 THEN NoMatch
    ELSE SelfClosingLast(s, i, i + 1 + Len(SVGTagNames[n]),
                         SelfClosingEnds(s, i + 1 + Len(SVGTagNames[n])))

reSVGSelfClosingAt(s, i) ==
    IF ~HasAt(s, i, LtB) THEN NoMatch
    ELSE SelfClosingNamed(s, i, NameAt(s, i + 1, SVGTagNames))

RECURSIVE SelfClosingFindAll(_, _)
RECURSIVE SelfClosingNext(_, _)
RECURSIVE SelfClosingFirst(_, _)
\* reSVGSelfClosing.FindAllStringSubmatchIndex(lineStr, -1) from index pos
SelfClosingFindAll(s, pos) == SelfClosingFirst(s, {i \in pos..(Len(s) - 1) : reSVGSelfClosingAt(s, i).found})

\* the leftmost of the indexes at which a match starts, if there is one
SelfClosingFirst(s, starts) ==
    IF starts = {} THEN <<>> ELSE SelfClosingNext(s, reSVGSelfClosingAt(s, Min(starts)))

SelfClosingNext(s, m) == <<m>> \o SelfClosingFindAll(s, m.m1)

\* reSVGUnquotedAttr at index i: "<svg", "[^>]*" as long as it can be while an
\* attribute name, "=", one rune that is no quote and "[^ >]*" follow.  m0..m5
\* are match[0]..match[5].
\* "=([^\"'][^ >]*)" matches with its "=" at index eq: a rune that is no
\* quote follows
UnquotedValueAt(s, eq) ==
    /\ HasAt(s, eq, <<61>>)
    /\ eq + 1 < Len(s)
    /\ RuneAt(s, eq + 1) \notin {34, 39}

\* "(width|height|viewBox)=([^\"'][^ >]*)" matches at index q, the name being
\* SVGAttrNames[n] (n = 0: none of them)
UnquotedNamed(s, q, n) ==
    n # 0 /\ UnquotedValueAt(s, q + Len(SVGAttrNames[n]))

\* the indexes q from p on at which the attribute matches after "[^>]*" took s[p:q]
UnquotedStarts(s, p) ==
    {q \in RuneStarts(s, p, ClassRun(s, p, {62})) :
        UnquotedNamed(s, q, NameAt(s, q, SVGAttrNames))}

\* the match that starts at i, with the attribute name at q, "=" at eq and
\* the value ending before e
UnquotedMatch(s, i, q, eq, e) ==
    [found |-> TRUE, m0 |-> i, m1 |-> e, m2 |-> q, m3 |-> eq, m4 |-> eq + 1, m5 |-> e]

UnquotedValue(s, i, q, eq) ==
    UnquotedMatch(s, i, q, eq, ClassRun(s, eq + 1 + RuneWidth(s, eq + 1), {32, 62}))

UnquotedFrom(s, i, q) ==
    UnquotedValue(s, i, q, q + Len(SVGAttrNames[NameAt(s, q, SVGAttrNames)]))

\* greedy "[^>]*": the last of the starts
UnquotedLast(s, i, starts) ==
    IF starts = {} THEN NoMatch ELSE UnquotedFrom(s, i, Max(starts))

reSVGUnquotedAttrAt(s, i) ==
    IF ~HasAt(s, i, SvgOpen) THEN NoMatch
    ELSE UnquotedLast(s, i, UnquotedStarts(s, i + Len(SvgOpen)))

RECURSIVE UnquotedFindAll(_, _)
RECURSIVE UnquotedNext(_, _)
RECURSIVE UnquotedFirst(_, _)
\* reSVGUnquotedAttr.FindAllStringSubmatchIndex(lineStr, -1) from index pos
UnquotedFindAll(s, pos) == UnquotedFirst(s, {i \in pos..(Len(s) - 1) : reSVGUnquotedAttrAt(s, i).found})

\* the leftmost of the indexes at which a match starts, if there is one
UnquotedFirst(s, starts) ==
    IF starts = {} THEN <<>> ELSE UnquotedNext(s, reSVGUnquotedAttrAt(s, Min(starts)))

UnquotedNext(s, m) == <<m>> \o UnquotedFindAll(s, m.m1)

\* "</" + tagName + ">"
ClosingTag(tagName) == <<60, 47>> \o tagName \o GtB

\* the issue of one match, if no closing tag follows it on the line
SelfClosingIssue(s, i, match, tagName) ==
    IF IndexFrom(s, match.m1, ClosingTag(tagName)) = -1
    THEN <<VE(i + 1, match.m0 + 1, s, "SVG self-closing tag issue",
              Msg("SVG <%s> tag should be self-closing with />", <<tagName>>),
              Slice(s, match.m0, match.m1))>>
    ELSE <<>>

RECURSIVE SelfClosingIssues(_, _, _)
\* the loop over the matches of reSVGSelfClosing on line i
SelfClosingIssues(s, i, ms) ==
    IF ms = <<>> THEN <<>>
    ELSE SelfClosingIssue(s, i, Head(ms), Slice(s, Head(ms).m2, Head(ms).m3))
         \o SelfClosingIssues(s, i, Tail(ms))

UnquotedError(s, i, column, attrName, attrValue) ==
    VE(i + 1, column, s, "SVG unquoted attribute",
       Msg("SVG attribute %s=%s should use quotes: %s=\"%s\"",
           <<attrName, attrValue, attrName, attrValue>>),
       attrName \o <<61>> \o attrValue)

\* the issue of one match of reSVGUnquotedAttr on line i
UnquotedIssue(s, i, match) ==
    UnquotedError(s, i, match.m2 + 1, Slice(s, match.m2, match.m3),
                  Slice(s, match.m4, match.m5))

\* the loop over the matches of reSVGUnquotedAttr on line i
UnquotedIssues(s, i, ms) == [k \in 1..Len(ms) |-> UnquotedIssue(s, i, ms[k])]

\* the issues of one line: the self-closing ones, then the unquoted ones
SVGLine(s, i) ==
    SelfClosingIssues(s, i, SelfClosingFindAll(s, 0))
    \o UnquotedIssues(s, i, UnquotedFindAll(s, 0))

RECURSIVE SVGLoop(_, _, _, _)
RECURSIVE SVGLineEnd(_, _, _, _)
\* "for i, line := range lines" from line i (0-based) with the errors so far
SVGLoop(lines, o, i, es) ==
    IF i >= Len(lines) THEN es
    ELSE SVGLineEnd(lines, o, i, es \o SVGLine(lines[i + 1], i))

\* the end of the loop body: "Stop if we've reached max errors"
SVGLineEnd(lines, o, i, es) ==
    IF BudgetReached(o, es) THEN es ELSE SVGLoop(lines, o, i + 1, es)

validateSVG(c, o) == Returned(SVGLoop(Split(c), o, 0, <<>>))

----------------------------------------------------------------------------
(* validateCDATASections *)

\* "<![CDATA[" and "]]>"
CDATAOpen == <<60, 33, 91, 67, 68, 65, 84, 65, 91>>
CDATAClose == <<93, 93, 62>>

\* The six patterns, in the order validateCDATASections hands them to
\* regexp.MustCompile, each with the Perl-only constructs it uses.
CDATAPatterns ==
    << [name |-> "reCDATAWithSpecialChar", lookahead |-> FALSE],
       [name |-> "reCDATAWithExclamation", lookahead |-> FALSE],
       [name |-> "reUnclosedCDATA", lookahead |-> TRUE],   \* (?!\]\]>)
       [name |-> "reNestedCDATA", lookahead |-> FALSE],
       [name |-> "reMultiClosingCDATA", lookahead |-> FALSE],
       [name |-> "reEmptyCDATA", lookahead |-> FALSE] >>

\* regexp.MustCompile(pattern) returns: Go's regexp package (RE2 syntax) has
\* no lookahead; Compile answers "invalid or unsupported Perl syntax: `(?!`"
\* and MustCompile panics with it.
MustCompileReturns(pattern) == ~pattern.lookahead

\* the leftmost index of s at which P holds, or -1
Leftmost(s, P(_)) ==
    IF \A m \in 0..(Len(s) - 1) : ~P(m) THEN -1
    ELSE Min({m \in 0..(Len(s) - 1) : P(m)})

\* the largest index at or after i at which p occurs in s, or -1
LastIndexFrom(s, i, p) ==
    IF \A k \in i..(Len(s) - Len(p)) : ~HasAt(s, k, p) THEN -1
    ELSE Max({k \in i..(Len(s) - Len(p)) : HasAt(s, k, p)})

\* a match from m0 whose greedy ".*" ends with the last occurrence of p
SpanTo(s, m0, p) ==
    IF m0 = -1 THEN <<-1, -1>>
    ELSE <<m0, LastIndexFrom(s, m0 + 9, p) + Len(p)>>

\* rule 1, reCDATAWithSpecialChar: matches[0]
SpecialCharMatch(s) ==
    LET P(m) == /\ HasAt(s, m, CDATAOpen)
                /\ m + 9 < Len(s)
                /\ ~IsAlnum(RuneAt(s, m + 9))
                /\ RuneAt(s, m + 9) # 32
    IN  Leftmost(s, P)

\* rule 2, reCDATAWithExclamation: matches[0]
ExclamationMatch(s) == IndexFrom(s, 0, CDATAOpen \o <<33>>)

\* rule 3, reUnclosedCDATA as a Perl engine reads it: an opening after which
\* no index up to the end of the line starts "]]>"
UnclosedMatch(s) ==
    LET P(m) == HasAt(s, m, CDATAOpen) /\ IndexFrom(s, m + 9, CDATAClose) = -1
    IN  Leftmost(s, P)

\* rule 4, reNestedCDATA: matches[0] and matches[1] (".*" is greedy)
NestedMatch(s) ==
    LET P(m) == HasAt(s, m, CDATAOpen) /\ IndexFrom(s, m + 9, CDATAOpen) # -1
    IN  SpanTo(s, Leftmost(s, P), CDATAOpen)

\* rule 5, reMultiClosingCDATA: matches[0] and matches[1]
MultiClosingMatch(s) ==
    LET P(m) == /\ HasAt(s, m, CDATAOpen)
                /\ IndexFrom(s, m + 9, CDATAClose) # -1
                /\ IndexFrom(s, IndexFrom(s, m + 9, CDATAClose) + 3, CDATAClose) # -1
    IN  SpanTo(s, Leftmost(s, P), CDATAClose)

\* rule 6, reEmptyCDATA: matches[0]
EmptyMatch(s) == IndexFrom(s, 0, CDATAOpen \o CDATAClose)

\* the issues of line i (0-based) given matches[0] (and matches[1]) of the six
\* rules: one per rule that matches, in rule order
CDATAIssues(s, i, m1, m2, m3, m4, m5, m6) ==
    (IF m1 # -1
     THEN <<VE(i + 1, m1 + 9, s, "Special character after CDATA opening",
               Msg("Special character '%c' found immediately after CDATA opening",
                   <<<<s[m1 + 10]>>>>),
               CDATAOpen \o <<s[m1 + 10]>>)>>
     ELSE <<>>)
    \o (IF m2 # -1
        THEN <<VE(i + 1, m2 + 9, s, "Exclamation mark after CDATA opening",
                  Msg("Exclamation mark found immediately after CDATA opening", <<>>),
                  CDATAOpen \o <<33>>)>>
        ELSE <<>>)
    \o (IF m3 # -1
        THEN <<VE(i + 1, m3, s, "Unclosed CDATA section",
                  Msg("CDATA section is not properly closed with ]]>", <<>>),
                  Slice(s, m3, Len(s)))>>
        ELSE <<>>)
    \o (IF m4[1] # -1
        THEN <<VE(i + 1, m4[1], s, "Nested CDATA sections",
                  Msg("CDATA sections cannot be nested", <<>>),
                  Slice(s, m4[1], m4[2]))>>
        ELSE <<>>)
    \o (IF m5[1] # -1
        THEN <<VE(i + 1, m5[1], s, "Multiple CDATA closing sequences",
                  Msg("Found multiple ']]>' sequences in a single CDATA block", <<>>),
                  Slice(s, m5[1], m5[2]))>>
        ELSE <<>>)
    \o (IF m6 # -1
        THEN <<VE(i + 1, m6, s, "Empty CDATA section",
                  Msg("CDATA section is empty", <<>>),
                  CDATAOpen \o CDATAClose)>>
        ELSE <<>>)

\* the body of the loop for line i
CDATALine(s, i) ==
    CDATAIssues(s, i, SpecialCharMatch(s), ExclamationMatch(s), UnclosedMatch(s),
                NestedMatch(s), MultiClosingMatch(s), EmptyMatch(s))

RECURSIVE CDATALoop(_, _, _, _)
RECURSIVE CDATALineEnd(_, _, _, _)
\* "for i, line := range lines" from line i (0-based) with the errors so far
CDATALoop(lines, o, i, es) ==
    IF i >= Len(lines) THEN es
    ELSE CDATALineEnd(lines, o, i, es \o CDATALine(lines[i + 1], i))

\* the end of the loop body: "Stop if we've reached max errors"
CDATALineEnd(lines, o, i, es) ==
    IF BudgetReached(o, es) THEN es ELSE CDATALoop(lines, o, i + 1, es)

\* The patterns are compiled before the first line is looked at, so a
\* pattern that does not compile ends the call for every content.
validateCDATASections(c, o) ==
    IF \A k \in 1..Len(CDATAPatterns) : MustCompileReturns(CDATAPatterns[k])
    THEN Returned(CDATALoop(Split(c), o, 0, <<>>))
    ELSE Panicked

----------------------------------------------------------------------------
(* validateXML *)

PhaseOrder == <<"basic", "cdata", "control", "hex", "svg">>

\* "len(allErrors) >= opts.MaxErrors && opts.MaxErrors > 0"
Full(o, all) == Len(all) >= o.MaxErrors /\ o.MaxErrors > 0

\* validateXML returns all after having started the first k checkers
Ret(all, k) == [panic |-> FALSE, errors |-> all, phases |-> SubSeq(PhaseOrder, 1, k)]

\* "return allErrors[:opts.MaxErrors]"
RetCut(o, all, k) == Ret(SubSeq(all, 1, o.MaxErrors), k)

\* a panic of the k-th checker unwinds validateXML
Unwind(k) == [panic |-> TRUE, errors |-> <<>>, phases |-> SubSeq(PhaseOrder, 1, k)]

\* "Limit errors if needed", then "return allErrors"
RetLimited(o, all, k) ==
    IF o.MaxErrors > 0 /\ Len(all) > o.MaxErrors THEN RetCut(o, all, k) ELSE Ret(all, k)

\* from the return of validateSVG
AfterSVG(c, o, all, svg) ==
    IF svg.panic THEN Unwind(5) ELSE RetLimited(o, all \o svg.errors, 5)

\* from the return of validateHexColors, all holding its errors too
AfterHex(c, o, all) ==
    IF Full(o, all) THEN RetCut(o, all, 4) ELSE AfterSVG(c, o, all, validateSVG(c, o))

\* from the return of validateControlCharacters, all holding its errors too
AfterControl(c, o, all) ==
    IF Full(o, all) THEN RetCut(o, all, 3)
    ELSE IF validateHexColors(c, o).panic THEN Unwind(4)
    ELSE AfterHex(c, o, all \o validateHexColors(c, o).errors)

\* from the return of validateCDATASections, all holding its errors too
AfterCDATA(c, o, all) ==
    IF Full(o, all) THEN RetCut(o, all, 2)
    ELSE IF validateControlCharacters(c, o).panic THEN Unwind(3)
    ELSE AfterControl(c, o, all \o validateControlCharacters(c, o).errors)

\* "If there are no basic XML errors, run additional checks"
Additional(c, o, all) ==
    IF validateCDATASections(c, o).panic THEN Unwind(2)
    ELSE AfterCDATA(c, o, all \o validateCDATASections(c, o).errors)

\* validateXML without its test "len(basicErrors) == 0"
validateXML_NoGate(c, o, basic) ==
    IF Full(o, basic) THEN RetCut(o, basic, 1) ELSE Additional(c, o, basic)

\* what validateXML does after validateBasicXML handed it basic: the list it
\* returns (or the panic that unwinds it) and the checkers it started
validateXML(c, o, basic) ==
    IF Full(o, basic) THEN RetCut(o, basic, 1)
    ELSE IF Len(basic) = 0 THEN Additional(c, o, basic)
    ELSE RetLimited(o, basic, 1)

----------------------------------------------------------------------------
(* main, after readFileContent has returned the content *)

\* what main prints for the list validateXML returned, and its exit status:
\* "found" is the count of the "Found %d XML issues" line, "shown" the number
\* of displayError calls, "note" whether the "Found more errors than
\* displayed" note is printed and "total" the count it names
Report(all, o) ==
    LET maxToShow == IF o.MaxErrors > Len(all) THEN Len(all) ELSE o.MaxErrors
    IN  IF Len(all) = 0
        THEN [exit |-> 0, wellFormed |-> TRUE, found |-> 0, shown |-> 0,
              note |-> FALSE, total |-> 0]
        ELSE [exit |-> 1, wellFormed |-> FALSE, found |-> Len(all),
              shown |-> IF maxToShow > 0 THEN maxToShow ELSE 0,
              note |-> Len(all) > o.MaxErrors,
              total |-> IF Len(all) > o.MaxErrors THEN Len(all) ELSE 0]

\* a panic nobody recovers: the Go runtime prints it and exits with status 2
Crashed ==
    [exit |-> 2, wellFormed |-> FALSE, found |-> 0, shown |-> 0,
     note |-> FALSE, total |-> 0]

NoReport ==
    [exit |-> -1, wellFormed |-> FALSE, found |-> 0, shown |-> 0,
     note |-> FALSE, total |-> 0]

----------------------------------------------------------------------------
(* The documents of the model. *)

\* every concatenation of at most n of the pieces
Docs(pieces, n) ==
    UNION {{Cat(f) : f \in [1..k -> pieces]} : k \in 0..n}

\* "<a/>", "<a>", "</a>", "#12 ", "\n", "<![CDATA[!x]]>"
PipelinePieces ==
    { <<60, 97, 47, 62>>, <<60, 97, 62>>, <<60, 47, 97, 62>>,
      <<35, 49, 50, 32>>, NL,
      CDATAOpen \o <<33, 120>> \o CDATAClose }

\* the values of --max-errors
Budgets == (-1)..MaxBudget
\* the budgets a checker is tried with (it treats a negative one like 0)
CheckerBudgets == 0..MaxBudget

\* the number of lines the tokenizer counts in c
LineCount(c) == Len(Split(c))

----------------------------------------------------------------------------
(* The run of main: validateBasicXML token by token, then the rest of      *)
(* validateXML, then the report.                                           *)

\* nothing returned by findErrorPosition yet
NoPosition == [line |-> 0, col |-> 0, lineContent |-> <<>>]

Init ==
    /\ content \in Docs(PipelinePieces, MaxDocPieces)
    /\ opts \in [MaxErrors : Budgets]
    /\ pc = "Token"
    /\ fn = "main"
    /\ tokens = 0
    /\ err = "nil"
    /\ basicErrors = <<>>
    /\ errors = <<>>
    /\ phases = <<>>
    /\ out = NoReport
    /\ byteOffset = -1
    /\ position = NoPosition

\* The tokenizer reads the content from its start: of an empty content it
\* has nothing to hand out but io.EOF, and of any other it hands out a token
\* or an error before it can reach the end.

\* the issue of a syntax error of line L placed at the start of line L
SyntaxIssue_AtLine(p, L) ==
    VE(L, 1, p.lineContent, "Basic XML Syntax Error",
       Msg("err.Error()", <<<<L>>>>), <<>>)

\* the issue of a syntax error of line L that findErrorPosition placed at p
SyntaxIssue(p, L) ==
    VE(p.line, p.col, p.lineContent, "Basic XML Syntax Error",
       Msg("err.Error()", <<<<L>>>>), <<>>)

\* the issue of an error that is no *xml.SyntaxError
OtherIssue == VE(0, 0, <<>>, "XML Error", Msg("err.Error()", <<>>), <<>>)

\* decoder.Token() returns a token: the loop goes round
TokenRead ==
    /\ pc = "Token"
    /\ content # <<>>
    /\ tokens < MaxTokens
    /\ tokens' = tokens + 1
    /\ err' = "nil"
    /\ UNCHANGED <<content, opts, pc, fn, basicErrors, errors, phases, out, byteOffset, position>>

\* decoder.Token() returns io.EOF: validateBasicXML returns no error
TokenEOF ==
    /\ pc = "Token"
    /\ content = <<>> \/ tokens > 0
    /\ err' = "io.EOF"
    /\ pc' = "basicDone"
    /\ UNCHANGED <<content, opts, fn, tokens, basicErrors, errors, phases, out, byteOffset, position>>

\* the branch of the syntax error without its "break": the issue is appended
\* and the loop asks for the next token
TokenSyntaxError_NoBreak ==
    /\ pc = "Token"
    /\ content # <<>>
    /\ Len(basicErrors) < 2
    /\ \E L \in 1..LineCount(content) :
          /\ byteOffset' = L
          /\ position' = findErrorPosition(content, L)
          /\ basicErrors' = Append(basicErrors, SyntaxIssue(findErrorPosition(content, L), L))
    /\ err' = "*xml.SyntaxError"
    /\ UNCHANGED <<content, opts, pc, fn, tokens, errors, phases, out>>

\* decoder.Token() returns a *xml.SyntaxError for line L: one issue, placed
\* by findErrorPosition(content, L), and the loop ends
TokenSyntaxError ==
    /\ pc = "Token"
    /\ content # <<>>
    /\ \E L \in 1..LineCount(content) :
          /\ byteOffset' = L
          /\ position' = findErrorPosition(content, L)
          /\ basicErrors' = Append(basicErrors, SyntaxIssue(findErrorPosition(content, L), L))
    /\ err' = "*xml.SyntaxError"
    /\ pc' = "basicDone"
    /\ UNCHANGED <<content, opts, fn, tokens, errors, phases, out>>

\* decoder.Token() returns an error of another type: one issue without a place
TokenOtherError ==
    /\ pc = "Token"
    /\ content # <<>>
    /\ basicErrors' = Append(basicErrors, OtherIssue)
    /\ err' = "error"
    /\ pc' = "basicDone"
    /\ UNCHANGED <<content, opts, fn, tokens, errors, phases, out, byteOffset, position>>

\* validateXML from the return of validateBasicXML to its own return or panic
ValidateXMLRest ==
    /\ pc = "basicDone"
    /\ LET r == validateXML(content, opts, basicErrors)
       IN  /\ errors' = r.errors
           /\ phases' = r.phases
           /\ pc' = IF r.panic THEN "panic" ELSE "returned"
    /\ UNCHANGED <<content, opts, fn, tokens, basicErrors, out, byteOffset, position, err>>

\* main prints the result and exits
MainReport ==
    /\ pc = "returned"
    /\ out' = Report(errors, opts)
    /\ pc' = "exit"
    /\ UNCHANGED <<content, opts, fn, tokens, basicErrors, errors, phases, byteOffset, position, err>>

\* the panic leaves validateXML and main: the process dies
MainPanic ==
    /\ pc = "panic"
    /\ out' = Crashed
    /\ pc' = "exit"
    /\ UNCHANGED <<content, opts, fn, tokens, basicErrors, errors, phases, byteOffset, position, err>>

Next ==
    \/ TokenRead
    \/ TokenEOF
    \/ TokenSyntaxError
    \/ TokenOtherError
    \/ ValidateXMLRest
    \/ MainReport
    \/ MainPanic

Spec == Init /\ [][Next]_vars

----------------------------------------------------------------------------
(* One checker applied to a document: the specifications of the claims     *)
(* about a single checker.                                                 *)

\* longest run of pieces of a document handed to validateCDATASections
MaxCDATAPieces == 3
\* longest run of pieces of a document handed to validateControlCharacters
MaxControlPieces == 4
\* longest run of hex digits after a "#"
MaxHexRun == 9
\* longest run of pieces of a document handed to validateSVG
MaxSVGPieces == 4

\* "<![CDATA[", "]]>", "!", "a", "\n"
CDATAPieces == {CDATAOpen, CDATAClose, <<33>>, <<97>>, NL}

\* "aa", "aaa", 0x01, 0x02, "\n", and tab, CR, e-acute (two bytes), a stray
\* continuation byte
ControlPieces ==
    {<<97, 97>>, <<97, 97, 97>>, <<1>>, <<2>>, NL, <<9, 13, 195, 169, 169>>}

\* k hex digits: 1, 2, ..., 9, a, b, ...
HexDigitsSeq == <<49, 50, 51, 52, 53, 54, 55, 56, 57, 97, 98, 99, 100, 101, 102>>
Digits(k) == SubSeq(HexDigitsSeq, 1, k)

\* what stands before the "#": "", "a", "#12 ", "#1\n", "#"
HexBefore == {<<>>, <<97>>, <<35, 49, 50, 32>>, <<35, 49, 10>>, <<35>>}
\* what stands after the digits: "", ";", ";x", "#1234", e-acute, "\n#1", CR LF
HexAfter ==
    {<<>>, <<59>>, <<59, 120>>, <<35, 49, 50, 51, 52>>, <<195, 169>>,
     <<10, 35, 49>>, <<13, 10>>}

HexDocs ==
    {before \o <<35>> \o Digits(k) \o after :
        before \in HexBefore, k \in 0..MaxHexRun, after \in HexAfter}

\* "<svg", " width=1", " height=\"1\"", " height=2", ">", "<rect x", "<rect",
\* "/", "</rect>", "\n"
SVGPieces ==
    { SvgOpen, <<32, 119, 105, 100, 116, 104, 61, 49>>,
      <<32, 104, 101, 105, 103, 104, 116, 61, 34, 49, 34>>,
      <<32, 104, 101, 105, 103, 104, 116, 61, 50>>, GtB,
      <<60, 114, 101, 99, 116, 32, 120>>, <<60, 114, 101, 99, 116>>, <<47>>,
      <<60, 47, 114, 101, 99, 116, 62>>, NL }

InitChecker(f, docs) ==
    /\ content \in docs
    /\ opts \in [MaxErrors : CheckerBudgets]
    /\ pc = "call"
    /\ fn = f
    /\ tokens = 0
    /\ err = "nil"
    /\ basicErrors = <<>>
    /\ errors = <<>>
    /\ phases = <<>>
    /\ out = NoReport
    /\ byteOffset = -1
    /\ position = NoPosition

\* the call returns r, or panics
Finish(r) ==
    /\ errors' = r.errors
    /\ pc' = IF r.panic THEN "panic" ELSE "done"
    /\ UNCHANGED <<content, opts, fn, tokens, basicErrors, phases, out, byteOffset, position, err>>

CallCDATA ==
    pc = "call" /\ fn = "validateCDATASections"
    /\ Finish(validateCDATASections(content, opts))

CallControl ==
    pc = "call" /\ fn = "validateControlCharacters"
    /\ Finish(validateControlCharacters(content, opts))

CallHex ==
    pc = "call" /\ fn = "validateHexColors"
    /\ Finish(validateHexColors(content, opts))

CallSVG ==
    pc = "call" /\ fn = "validateSVG"
    /\ Finish(validateSVG(content, opts))

InitCDATA == InitChecker("validateCDATASections", Docs(CDATAPieces, MaxCDATAPieces))
InitControl == InitChecker("validateControlCharacters", Docs(ControlPieces, MaxControlPieces))
InitHex == InitChecker("validateHexColors", HexDocs)
InitSVG == InitChecker("validateSVG", Docs(SVGPieces, MaxSVGPieces))

SpecCDATA == InitCDATA /\ [][CallCDATA]_vars
SpecControl == InitControl /\ [][CallControl]_vars
SpecHex == InitHex /\ [][CallHex]_vars
SpecSVG == InitSVG /\ [][CallSVG]_vars

\* longest run of pieces of a document handed to any of the line checkers
MaxCheckerPieces == 4

\* "#12 ", 0x01, "<rect x>", "<svg width=1 ", "\n": something for each
\* checker to report, several times on a line or on several lines
CheckerPieces ==
    { <<35, 49, 50, 32>>, <<1>>, <<60, 114, 101, 99, 116, 32, 120, 62>>,
      <<60, 115, 118, 103, 32, 119, 105, 100, 116, 104, 61, 49, 32>>, NL }

CheckerNames ==
    {"validateCDATASections", "validateControlCharacters", "validateHexColors",
     "validateSVG"}

\* any of the four line checkers applied to a document
InitCheckers ==
    \E f \in CheckerNames : InitChecker(f, Docs(CheckerPieces, MaxCheckerPieces))

NextCheckers == CallCDATA \/ CallControl \/ CallHex \/ CallSVG

SpecCheckers == InitCheckers /\ [][NextCheckers]_vars

\* longest run of pieces of a content handed to findErrorPosition
MaxPositionPieces == 4

\* "a", "bc", "\n", "\r"
PositionPieces == {<<97>>, <<98, 99>>, NL, <<13>>}

\* findErrorPosition applied to a content and an offset, from one below the
\* first index to one above the length
InitPosition ==
    /\ content \in Docs(PositionPieces, MaxPositionPieces)
    /\ byteOffset \in (-1)..(Len(content) + 1)
    /\ opts = [MaxErrors |-> 0]
    /\ pc = "call"
    /\ fn = "findErrorPosition"
    /\ tokens = 0
    /\ err = "nil"
    /\ basicErrors = <<>>
    /\ errors = <<>>
    /\ phases = <<>>
    /\ out = NoReport
    /\ position = NoPosition

CallFindErrorPosition ==
    /\ pc = "call" /\ fn = "findErrorPosition"
    /\ position' = findErrorPosition(content, byteOffset)
    /\ pc' = "done"
    /\ UNCHANGED <<content, opts, fn, tokens, basicErrors, errors, phases, out, byteOffset, err>>

SpecPosition == InitPosition /\ [][CallFindErrorPosition]_vars

----------------------------------------------------------------------------
(* The claims. *)

NoLimit == [MaxErrors |-> 0]

\* the issues the loops of the four line checkers find in c when nothing
\* limits them, in the order validateXML appends them
IssuesOf(c) ==
    CDATALoop(Split(c), NoLimit, 0, <<>>) \o ControlLoop(Split(c), NoLimit, 0, <<>>)
    \o HexLoop(Split(c), NoLimit, 0, <<>>) \o SVGLoop(Split(c), NoLimit, 0, <<>>)

\* validateXML is over: it returned or a panic left it
Over == pc \in {"returned", "panic", "exit"}

\* C1: Phase precedence.  Whenever validateBasicXML returned at least one
\* issue, validateXML starts none of the four line checkers and returns
\* exactly the well-formedness issue, whatever the content and the options.
C1_PhasePrecedence ==
    (Over /\ Len(basicErrors) >= 1) =>
        /\ pc # "panic"
        /\ phases = <<"basic">>
        /\ Len(errors) = 1
        /\ errors = basicErrors

\* "<a>": the tokenizer hands out the start tag, then a syntax error for the
\* element left open
C1_Witness ==
    /\ pc = "returned"
    /\ content = <<60, 97, 62>>
    /\ tokens = 1
    /\ opts.MaxErrors = 2
    /\ Len(basicErrors) = 1
    /\ basicErrors[1].ErrorType = "Basic XML Syntax Error"
    /\ phases = <<"basic">>

\* C2: Budget bound.  For MaxErrors = N > 0 the returned list never has more
\* than N issues, and for a content in which the checkers find more than N
\* issues validateXML returns a list of exactly N.
C2_BudgetBound ==
    (pc = "exit" /\ opts.MaxErrors > 0) =>
        /\ out.exit # 2 => Len(errors) <= opts.MaxErrors
        /\ (basicErrors = <<>> /\ Len(IssuesOf(content)) > opts.MaxErrors)
              => (out.exit # 2 /\ Len(errors) = opts.MaxErrors)

\* C3: Pre-truncation count.  When the budget N > 0 drops at least one of
\* the issues found, main reports the "found more errors than displayed"
\* note with the number of issues found before the cut, which is larger
\* than N.
C3_PreTruncationCount ==
    (pc = "exit" /\ opts.MaxErrors > 0 /\ basicErrors = <<>>
       /\ Len(IssuesOf(content)) > opts.MaxErrors)
        => (out.note /\ out.total = Len(IssuesOf(content))
              /\ out.total > opts.MaxErrors)

\* the issues found up to and including the k-th phase of a well-formed c
FoundAfter(c, k) ==
    (IF k >= 2 THEN CDATALoop(Split(c), NoLimit, 0, <<>>) ELSE <<>>)
    \o (IF k >= 3 THEN ControlLoop(Split(c), NoLimit, 0, <<>>) ELSE <<>>)
    \o (IF k >= 4 THEN HexLoop(Split(c), NoLimit, 0, <<>>) ELSE <<>>)

\* C4: Pipeline early exit.  The phases are started in the fixed order, and
\* with MaxErrors = N > 0, when the issues found up to a phase (CDATA,
\* control-char, hex-color) of a well-formed document number at least N,
\* validateXML returns right after the first such phase and starts no later one.
C4_PipelineEarlyExit ==
    (Over /\ opts.MaxErrors > 0) =>
        /\ \E k \in 1..Len(PhaseOrder) : phases = SubSeq(PhaseOrder, 1, k)
        /\ \A k \in 2..4 :
              (/\ basicErrors = <<>>
               /\ Len(FoundAfter(content, k)) >= opts.MaxErrors
               /\ Len(FoundAfter(content, k - 1)) < opts.MaxErrors)
                  => (pc # "panic" /\ out.exit # 2 /\ phases = SubSeq(PhaseOrder, 1, k))

\* C5: Issue ordering, for the list of one phase (validateSVG's, which
\* validateXML appends as it is): the line numbers never decrease, and on
\* one line the columns never decrease.
C5_IssueOrdering ==
    (pc = "done" /\ fn = "validateSVG") =>
        \A i, j \in 1..Len(errors) :
            i < j =>
                /\ errors[i].LineNumber <= errors[j].LineNumber
                /\ errors[i].LineNumber = errors[j].LineNumber
                      => errors[i].Column <= errors[j].Column

\* C6: No checker crashes.  Applied to any content with any budget, a line
\* checker returns a list; it does not panic.
C6_NoCheckerCrashes == pc # "panic"

\* a document without CDATA marker, control character, "#" and SVG tag
Clean(c) ==
    /\ IndexFrom(c, 0, CDATAOpen) = -1
    /\ \A k \in 1..Len(c) : c[k] >= 32 \/ c[k] \in {9, 13, 10}
    /\ \A k \in 1..Len(c) : c[k] # 35
    /\ IndexFrom(c, 0, SvgOpen) = -1
    /\ \A n \in 1..Len(SVGTagNames) : IndexFrom(c, 0, LtB \o SVGTagNames[n]) = -1

\* C7: Clean document.  For a well-formed document without CDATA marker,
\* control character, "#" and SVG tag (such as "<a/>"), validateXML returns
\* the empty list and main reports it well-formed with exit status 0.
C7_CleanDocument ==
    (pc = "exit" /\ basicErrors = <<>> /\ content # <<>> /\ Clean(content)) =>
        /\ errors = <<>>
        /\ out.wellFormed
        /\ out.exit = 0

\* the issues of type t that es holds for line number n
OfLine(es, n, t) == {k \in 1..Len(es) : es[k].LineNumber = n /\ es[k].ErrorType = t}

\* C8: CDATA opening rules 1 and 2.  For every line in which "<![CDATA[" is
\* immediately followed by "!", validateCDATASections (without a budget)
\* returns exactly one 'Special character after CDATA opening' issue and
\* exactly one 'Exclamation mark after CDATA opening' issue for that line,
\* both with the 1-based index of the "!" as column.
C8_CDATAOpeningRules ==
    (pc \in {"done", "panic"} /\ fn = "validateCDATASections" /\ opts.MaxErrors = 0) =>
        \A n \in 1..Len(Split(content)) :
            LET line == Split(content)[n]
                bang == IndexFrom(line, 0, CDATAOpen \o <<33>>)
            IN  bang # -1 =>
                  /\ pc = "done"
                  /\ \A t \in {"Special character after CDATA opening",
                               "Exclamation mark after CDATA opening"} :
                        /\ Cardinality(OfLine(errors, n, t)) = 1
                        /\ \A k \in OfLine(errors, n, t) : errors[k].Column = bang + 10

\* the 0-based byte indexes of the control characters of a line
Controls(line) == {j \in 0..(Len(line) - 1) : line[j + 1] < 32 /\ line[j + 1] \notin {9, 13, 10}}

\* the issues es holds for line number n
OnLine(es, n) == {k \in 1..Len(es) : es[k].LineNumber = n}

\* the loop of validateControlCharacters reaches line number n: no budget, or
\* fewer issues than the budget on the lines before it
Scanned(es, o, n) ==
    o.MaxErrors <= 0 \/ Cardinality({k \in 1..Len(es) : es[k].LineNumber < n}) < o.MaxErrors

\* C9: Control character isolation.  validateControlCharacters returns at
\* most one issue per line; a line it scans has an issue exactly when it holds
\* a control character (below 32, not tab, CR, LF), and the issue is for the
\* leftmost one, its column being that character's 1-based byte position.
C9_ControlCharacterIsolation ==
    (pc = "done" /\ fn = "validateControlCharacters") =>
        \A n \in 1..Len(Split(content)) :
            LET line == Split(content)[n]
            IN  /\ Cardinality(OnLine(errors, n)) <= 1
                /\ \A k \in OnLine(errors, n) :
                      /\ Controls(line) # {}
                      /\ errors[k].Column = Min(Controls(line)) + 1
                      /\ errors[k].Content = <<line[Min(Controls(line)) + 1]>>
                      /\ errors[k].ErrorType = "Control character"
                /\ (Controls(line) # {} /\ Scanned(errors, opts, n))
                      => OnLine(errors, n) # {}

\* "aa", 0x01, "aaa", 0x02: control characters at columns 3 and 7
TwoControls == <<97, 97, 1, 97, 97, 97, 2>>

C9_Witness ==
    /\ pc = "done"
    /\ fn = "validateControlCharacters"
    /\ content = TwoControls
    /\ Len(errors) = 1
    /\ errors[1].Column = 3

\* the number of hex digits from 0-based index p of line
RunFrom(line, p) ==
    IF \A q \in p..(Len(line) - 1) : IsHexDigit(line[q + 1]) THEN Len(line) - p
    ELSE Min({q \in p..(Len(line) - 1) : ~IsHexDigit(line[q + 1])}) - p

\* C10: Valid hex colors are never flagged.  A "#" followed by a run of
\* exactly 3, 6 or 8 hex digits (no hex digit after the run) gets no
\* 'Invalid hex color' issue from validateHexColors.
C10_ValidHexNotFlagged ==
    (pc = "done" /\ fn = "validateHexColors") =>
        \A n \in 1..Len(Split(content)) :
            \A j \in 0..(Len(Split(content)[n]) - 1) :
                (Split(content)[n][j + 1] = 35 /\ RunFrom(Split(content)[n], j + 1) \in {3, 6, 8})
                    => ~\E k \in 1..Len(errors) :
                          /\ errors[k].LineNumber = n
                          /\ errors[k].Column = j + 1
                          /\ errors[k].ErrorType = "Invalid hex color"

\* the issues of type t that es holds for line number n and column col
At(es, n, col, t) ==
    {k \in 1..Len(es) : es[k].LineNumber = n /\ es[k].Column = col /\ es[k].ErrorType = t}

\* C11: Invalid hex colors are reported exactly.  Without a budget, each "#"
\* followed by a maximal run of 1, 2, 4, 5 or 7 hex digits gets exactly one
\* 'Invalid hex color' issue at the 1-based index of the "#", whose Content
\* is the "#" and the digits, without the character after them.
C11_InvalidHexReported ==
    (pc = "done" /\ fn = "validateHexColors" /\ opts.MaxErrors = 0) =>
        \A n \in 1..Len(Split(content)) :
            \A j \in 0..(Len(Split(content)[n]) - 1) :
                (Split(content)[n][j + 1] = 35
                   /\ RunFrom(Split(content)[n], j + 1) \in {1, 2, 4, 5, 7})
                    => /\ Cardinality(At(errors, n, j + 1, "Invalid hex color")) = 1
                       /\ \A k \in At(errors, n, j + 1, "Invalid hex color") :
                             errors[k].Content =
                                 Slice(Split(content)[n], j,
                                       j + 1 + RunFrom(Split(content)[n], j + 1))

\* an opening tag named SVGTagNames[m] starts at 0-based index p of line: "<",
\* the name, then a blank, "/" or ">", and a ">" closes it further on
OpeningTag(line, p, m) ==
    /\ HasAt(line, p, LtB \o SVGTagNames[m])
    /\ p + 1 + Len(SVGTagNames[m]) < Len(line)
    /\ line[p + 2 + Len(SVGTagNames[m])] \in {32, 9, 47, 62}
    /\ IndexFrom(line, p, GtB) # -1

\* the opening tag at p neither ends in "/>" nor is followed on the line by
\* its closing tag
LeftOpen(line, p, m) ==
    /\ line[IndexFrom(line, p, GtB)] # 47
    /\ IndexFrom(line, IndexFrom(line, p, GtB) + 1, ClosingTag(SVGTagNames[m])) = -1

\* C12: SVG non-self-closed elements.  Without a budget, on every line the
\* 'SVG self-closing tag issue' issues are exactly one for each opening tag
\* (with or without attributes) of one of the nine names that neither ends
\* in "/>" nor is followed on the line by its closing tag, at the 1-based
\* index of its "<"; no other place of the line gets one.
C12_SVGNonSelfClosed ==
    (pc = "done" /\ fn = "validateSVG" /\ opts.MaxErrors = 0) =>
        \A n \in 1..Len(Split(content)) :
            \A p \in 0..(Len(Split(content)[n]) - 1) :
                Cardinality(At(errors, n, p + 1, "SVG self-closing tag issue"))
                    = IF \E m \in 1..Len(SVGTagNames) :
                            /\ OpeningTag(Split(content)[n], p, m)
                            /\ LeftOpen(Split(content)[n], p, m)
                      THEN 1 ELSE 0

\* C13: Position resolution default.  For every content and every offset
\* that is negative or at least len(content), findErrorPosition returns line
\* 1, column 1 and the empty line text.
C13_PositionDefault ==
    (pc = "done" /\ fn = "findErrorPosition"
       /\ (byteOffset < 0 \/ byteOffset >= Len(content)))
        => position = [line |-> 1, col |-> 1, lineContent |-> <<>>]

\* the offset is the length of a content of two lines
C13_Witness ==
    /\ pc = "done"
    /\ fn = "findErrorPosition"
    /\ content = <<97, 10, 98, 99>>
    /\ byteOffset = 4
    /\ position = [line |-> 1, col |-> 1, lineContent |-> <<>>]

\* C14: The well-formedness checker stops at the first error.  The loop of
\* validateBasicXML asks for a token only while no call of decoder.Token()
\* has returned an error; what it returns has 0 or 1 issues, none exactly
\* when the tokenizer came to io.EOF, and else the one issue of the error
\* that ended the loop.
C14_StopsAtFirstError ==
    /\ pc = "Token" => (err = "nil" /\ basicErrors = <<>>)
    /\ (fn = "main" /\ pc # "Token") =>
          /\ Len(basicErrors) <= 1
          /\ basicErrors = <<>> <=> err = "io.EOF"
          /\ err = "*xml.SyntaxError" =>
                (Len(basicErrors) = 1 /\ basicErrors[1].ErrorType = "Basic XML Syntax Error")
          /\ err = "error" => basicErrors = <<OtherIssue>>

\* a syntax error after one token: "<a>" left open
C14_Witness ==
    /\ pc = "basicDone"
    /\ content = <<60, 97, 62>>
    /\ tokens = 1
    /\ err = "*xml.SyntaxError"
    /\ Len(basicErrors) = 1

\* the construct an issue of validateCDATASections reports: the character
\* after the marker for the first two rules, the marker for the others
Construct(e) ==
    IF e.ErrorType \in {"Special character after CDATA opening",
                        "Exclamation mark after CDATA opening"}
    THEN <<e.Content[Len(e.Content)]>>
    ELSE CDATAOpen

FirstOf(es, n) == SubSeq(es, 1, IF n < Len(es) THEN n ELSE Len(es))

\* what validateXML does with the same content and no limit
Unbounded == validateXML(content, NoLimit, basicErrors)

\* C16: Truncation is a prefix of the unbounded run.  For N > 0,
\* validateXML(content, MaxErrors = N) returns, and what it returns is the
\* first min(N, T) issues of what validateXML(content, MaxErrors = 0)
\* returns, T being the length of the latter.
C16_TruncationIsPrefix ==
    (pc \in {"returned", "panic"} /\ opts.MaxErrors > 0) =>
        /\ pc = "returned"
        /\ ~Unbounded.panic
        /\ errors = FirstOf(Unbounded.errors, opts.MaxErrors)

\* what the loop of the checker fn finds in the content when nothing limits it
Unlimited ==
    CASE fn = "validateCDATASections" -> CDATALoop(Split(content), NoLimit, 0, <<>>)
      [] fn = "validateControlCharacters" -> ControlLoop(Split(content), NoLimit, 0, <<>>)
      [] fn = "validateHexColors" -> HexLoop(Split(content), NoLimit, 0, <<>>)
      [] fn = "validateSVG" -> SVGLoop(Split(content), NoLimit, 0, <<>>)
      [] OTHER -> <<>>

\* how many of the issues es lie on the lines up to number n
UpTo(es, n) == Cardinality({k \in 1..Len(es) : es[k].LineNumber <= n})

\* the number of the line at whose end n issues or more have been found
\* (the last line when there is none)
StopLine(es, n, last) ==
    IF \A l \in 1..last : UpTo(es, l) < n THEN last
    ELSE Min({l \in 1..last : UpTo(es, l) >= n})

\* C17 as the spec has it: with a budget N > 0 a line checker appends no
\* issue once it has collected N, so it returns at most N issues.
C17_StopsAtBudget ==
    (pc = "done" /\ opts.MaxErrors > 0) => Len(errors) <= opts.MaxErrors

\* C17, amended: with a budget N > 0 a line checker that returns has scanned
\* the lines up to the first one at whose end it holds N issues or more, and
\* no line after it: it returns every issue of those lines, which can be
\* more than N.
C17_StopsAtLineEnd ==
    (pc = "done" /\ opts.MaxErrors > 0) =>
        errors = SubSeq(Unlimited, 1,
                        UpTo(Unlimited,
                             StopLine(Unlimited, opts.MaxErrors, Len(Split(content)))))

\* "#12 #12 ", then "#12 " on a second line, with budget 1: both issues of
\* the first line are returned, the one of the second line is not
C17_Witness ==
    /\ pc = "done"
    /\ fn = "validateHexColors"
    /\ opts.MaxErrors = 1
    /\ content = <<35, 49, 50, 32, 35, 49, 50, 32, 10, 35, 49, 50, 32>>
    /\ Len(errors) = 2
    /\ errors[2].LineNumber = 1
    /\ Len(Unlimited) = 3

\* line holds a "<![CDATA[" with no "]]>" after it
OpenToLineEnd(line) ==
    \E m \in 0..(Len(line) - 1) :
        HasAt(line, m, CDATAOpen) /\ IndexFrom(line, m + 9, CDATAClose) = -1

\* C18: Unclosed CDATA is judged per physical line.  Without a budget,
\* validateCDATASections returns one 'Unclosed CDATA section' issue for every
\* line that holds "<![CDATA[" with no "]]>" after it on that line, and none
\* for the other lines.
C18_UnclosedPerLine ==
    (fn = "validateCDATASections" /\ pc \in {"done", "panic"} /\ opts.MaxErrors = 0) =>
        \A n \in 1..Len(Split(content)) :
            IF OpenToLineEnd(Split(content)[n])
            THEN /\ pc = "done"
                 /\ Cardinality(OfLine(errors, n, "Unclosed CDATA section")) = 1
            ELSE OfLine(errors, n, "Unclosed CDATA section") = {}

\* C19: Well-formedness issue position.  When the tokenizer's error is a
\* syntax error of line L, the one issue is tagged 'Basic XML Syntax Error',
\* carries the error's message, and has the line, column and line text that
\* findErrorPosition returns for the content and L taken as a byte offset;
\* when the error has no position, the issue has line 0, column 0 and the
\* tag 'XML Error'.
C19_BasicIssuePosition ==
    (fn = "main" /\ pc # "Token") =>
        /\ err = "*xml.SyntaxError" =>
              /\ byteOffset \in 1..LineCount(content)
              /\ Len(basicErrors) = 1
              /\ basicErrors[1].ErrorType = "Basic XML Syntax Error"
              /\ basicErrors[1].Message = Msg("err.Error()", <<<<byteOffset>>>>)
              /\ basicErrors[1].LineNumber = findErrorPosition(content, byteOffset).line
              /\ basicErrors[1].Column = findErrorPosition(content, byteOffset).col
              /\ basicErrors[1].Line = findErrorPosition(content, byteOffset).lineContent
        /\ err = "error" =>
              /\ Len(basicErrors) = 1
              /\ basicErrors[1].ErrorType = "XML Error"
              /\ basicErrors[1].LineNumber = 0
              /\ basicErrors[1].Column = 0
              /\ basicErrors[1].Message = Msg("err.Error()", <<>>)

\* "<a>", "\n", "<a>" with a syntax error of line 2: offset 2 is on line 1,
\* column 3
C19_Witness ==
    /\ pc = "basicDone"
    /\ err = "*xml.SyntaxError"
    /\ content = <<60, 97, 62, 10, 60, 97, 62>>
    /\ byteOffset = 2
    /\ basicErrors[1].LineNumber = 1
    /\ basicErrors[1].Column = 3
    /\ basicErrors[1].Line = <<60, 97, 62>>

\* the number of "\n" bytes of c strictly before the 0-based index k
NewlinesBefore(c, k) == Cardinality({i \in 1..k : c[i] = 10})

\* line without one "\r" at its end
WithoutCR(line) ==
    IF line # <<>> /\ line[Len(line)] = 13 THEN SubSeq(line, 1, Len(line) - 1) ELSE line

\* C20 as the spec has it: for 0 <= offset < len(content) the line returned
\* is 1 + the number of "\n" before the offset and the text returned is that
\* line of the content split on "\n", a trailing "\r" kept.
C20_LineTextKeepsCR ==
    (pc = "done" /\ fn = "findErrorPosition"
       /\ byteOffset >= 0 /\ byteOffset < Len(content)) =>
        /\ position.line = 1 + NewlinesBefore(content, byteOffset)
        /\ position.lineContent = Split(content)[position.line]

\* C20, amended: the line returned is 1 + the number of "\n" before the
\* offset and the text returned is that line of the content split on "\n"
\* without one trailing "\r".
C20_LineTextDropsCR ==
    (pc = "done" /\ fn = "findErrorPosition"
       /\ byteOffset >= 0 /\ byteOffset < Len(content)) =>
        /\ position.line = 1 + NewlinesBefore(content, byteOffset)
        /\ position.lineContent = WithoutCR(Split(content)[position.line])

\* "a\r\nbc" and the offset of its "\r": line 1, text "a"
C20_Witness ==
    /\ pc = "done"
    /\ fn = "findErrorPosition"
    /\ content = <<97, 13, 10, 98, 99>>
    /\ byteOffset = 1
    /\ position = [line |-> 1, col |-> 2, lineContent |-> <<97>>]

\* index q of line lies inside an "<svg" tag: "<svg" before it and no ">"
\* in between
InSvgTag(line, q) ==
    \E i \in 0..(q - 1) :
        /\ HasAt(line, i, SvgOpen)
        /\ i + Len(SvgOpen) <= q
        /\ \A j \in (i + 1)..q : line[j] # 62

\* the attribute SVGAttrNames[m] starts at index q of line, after a blank,
\* and its value does not start with a quote
UnquotedAttr(line, q, m) ==
    /\ q >= 1
    /\ line[q] \in {32, 9}
    /\ HasAt(line, q, SVGAttrNames[m] \o <<61>>)
    /\ q + Len(SVGAttrNames[m]) + 1 < Len(line)
    /\ line[q + Len(SVGAttrNames[m]) + 2] \notin {34, 39}

\* C21: SVG unquoted attributes.  Without a budget, on every line the 'SVG
\* unquoted attribute' issues are exactly one for each width, height or
\* viewBox attribute inside an "<svg" tag whose value does not start with a
\* quote (two for a tag with two of them), at the 1-based index of the
\* attribute name and with the name in the corrected form of the message;
\* quoted attributes get none.
C21_SVGUnquotedAttributes ==
    (pc = "done" /\ fn = "validateSVG" /\ opts.MaxErrors = 0) =>
        \A n \in 1..Len(Split(content)) :
            \A q \in 0..(Len(Split(content)[n]) - 1) :
                IF \E m \in 1..Len(SVGAttrNames) :
                       /\ UnquotedAttr(Split(content)[n], q, m)
                       /\ InSvgTag(Split(content)[n], q)
                THEN /\ Cardinality(At(errors, n, q + 1, "SVG unquoted attribute")) = 1
                     /\ \A k \in At(errors, n, q + 1, "SVG unquoted attribute") :
                           /\ errors[k].Message.text =
                                  "SVG attribute %s=%s should use quotes: %s=\"%s\""
                           /\ HasAt(Split(content)[n], q, errors[k].Message.args[3])
                ELSE At(errors, n, q + 1, "SVG unquoted attribute") = {}

====
